---- MODULE Spec2Model ----
(***************************************************************************)
(* Model of backend/src/positions/neck_position.py (class NeckPosition)    *)
(* and of backend/src/utils/note2num.py, num2note.py.                      *)
(*                                                                         *)
(* Python lists are objects: `heap` maps a list reference to its contents, *)
(* and a NeckPosition holds two references.  add_note appends in place,    *)
(* shift rebinds self.fingers to a new list, every constructor call copies *)
(* its arguments with list().                                              *)
(***************************************************************************)
EXTENDS Integers, Sequences, FiniteSets, TLC

VARIABLES heap, objs, last, nops, conv

vars == <<heap, objs, last, nops, conv>>

(* ------------------------------ bounds --------------------------------- *)
MaxLen == 2        \* longest placements / fingers list add_note may build
InitLen == 1       \* longest list handed to the first constructor call
MaxOps == 2        \* method calls per behaviour
MaxShift == 2      \* shift amounts are 1..MaxShift
MaxSlots == 3      \* get_full_position(num_fingers) takes 0..MaxSlots
MaxFingerArg == 2  \* the max_finger argument of shift

NoId == -1         \* stands for pos_id = None
IdSet == {NoId, 7}

StringArgs == {0, 1}
FretArgs == {0, 1}
FingerArgs == {0, 1}
PlacementArgs == {s * 100 + f : s \in StringArgs, f \in FretArgs}

(* --------------------------- python helpers ---------------------------- *)
Min(a, b) == IF a < b THEN a ELSE b

\* zip(a, b): pairs up to the shorter argument
zip(a, b) == [i \in 1..Min(Len(a), Len(b)) |-> <<a[i], b[i]>>]

\* the two lists zip(*pairs) unpacks into
unzip1(pairs) == [i \in 1..Len(pairs) |-> pairs[i][1]]
unzip2(pairs) == [i \in 1..Len(pairs) |-> pairs[i][2]]

\* an unpacking that accepts nothing
UnpackAlways(pairs) == TRUE

\* `a, b = map(list, zip(*pairs))` needs exactly two tuples from zip(*pairs):
\* zip() of no arguments yields nothing and the unpacking raises ValueError
UnpackOk(pairs) == Len(pairs) > 0

\* sort keys (the lambdas of the three sort methods)
\* the key the docstring suggests
key_string_only(x) == x[1] \div 100
key_string(x) == x[1]
\* sorting on the packed value
key_fret_packed(x) == x[1]
key_fret(x) == x[1] % 100
key_finger(x) == x[2]

\* sorted(pairs, key=..., reverse=rev), keys[i] being the key of pairs[i].
\* Entries are <<key, pair>>; an entry goes after every entry whose key is not
\* larger, so equal keys keep their input order; reverse=True keeps it too,
\* which is sorting on the negated key.
RECURSIVE InsertSorted(_, _)
InsertSorted(s, e) ==
    IF s = <<>> THEN <<e>>
    ELSE IF e[1] < Head(s)[1] THEN <<e>> \o s
    ELSE <<Head(s)>> \o InsertSorted(Tail(s), e)

RECURSIVE SortEntries(_)
SortEntries(es) ==
    IF es = <<>> THEN <<>>
    ELSE InsertSorted(SortEntries(SubSeq(es, 1, Len(es) - 1)), es[Len(es)])

sorted(pairs, keys, rev) ==
    LET sgn == IF rev THEN -1 ELSE 1
        es == SortEntries([i \in 1..Len(pairs) |-> <<sgn * keys[i], pairs[i]>>])
    IN [i \in 1..Len(es) |-> es[i][2]]

\* the strings / frets properties
strings(pl) == [i \in 1..Len(pl) |-> pl[i] \div 100]
frets(pl) == [i \in 1..Len(pl) |-> pl[i] % 100]

\* the last index holding v
index_last(s, v) ==
    IF \E j \in 1..Len(s) : s[j] = v
    THEN CHOOSE j \in 1..Len(s) : s[j] = v /\ \A m \in (j + 1)..Len(s) : s[m] # v
    ELSE 0

\* list.index(v): first index holding v (1-based here), 0 when absent
index(s, v) ==
    IF \E j \in 1..Len(s) : s[j] = v
    THEN CHOOSE j \in 1..Len(s) : s[j] = v /\ \A m \in 1..(j - 1) : s[m] # v
    ELSE 0

(* ------------------------------ objects -------------------------------- *)
\* an argument handed to a constructor: an existing list object or a fresh
\* temporary (a list nothing else refers to)
Ref(r) == [isref |-> TRUE, ref |-> r, val |-> <<>>]
Val(v) == [isref |-> FALSE, ref |-> 0, val |-> v]
Contents(h, arg) == IF arg.isref THEN h[arg.ref] ELSE arg.val

\* what is wrong with a constructor that keeps the caller's list
list_alias(h, arg) ==
    IF arg.isref THEN [heap |-> h, ref |-> arg.ref]
    ELSE [heap |-> Append(h, arg.val), ref |-> Len(h) + 1]

\* list(x): a new list object with the contents of x
list(h, arg) == [heap |-> Append(h, Contents(h, arg)), ref |-> Len(h) + 1]

\* Position.__init__: stores the two lists and the id
Position(plRef, fgRef, id) == [placements |-> plRef, fingers |-> fgRef, id |-> id]

\* NeckPosition.__init__
NeckPosition(h, plArg, fgArg, id) ==
    LET a == list(h, plArg)
        b == list(a.heap, fgArg)
    IN [heap |-> b.heap, obj |-> Position(a.ref, b.ref, id)]

Pl(k) == heap[objs[k].placements]
Fg(k) == heap[objs[k].fingers]
View(k) == [placements |-> Pl(k), fingers |-> Fg(k), id |-> objs[k].id]

Objects == 1..Len(objs)

NoConv == [op |-> "none", name |-> <<>>, num |-> 0, ok1 |-> TRUE,
           ok2 |-> TRUE, back |-> <<>>, backnum |-> 0]

Called(op, k, res, ok, a1, a2, a3) ==
    [op |-> op, recv |-> k, res |-> res, ok |-> ok, a1 |-> a1, a2 |-> a2, a3 |-> a3,
     prePl |-> Pl(k), preFg |-> Fg(k), preId |-> objs[k].id]

(* ------------------------------- Init ---------------------------------- *)
\* the state after NeckPosition(placements, fingers, pos_id) with two lists
\* of the same length
Init ==
    /\ \E m \in 0..InitLen :
       \E pl \in [1..m -> PlacementArgs], fg \in [1..m -> FingerArgs], id \in IdSet :
          LET c == NeckPosition(<<>>, Val(pl), Val(fg), id)
          IN /\ heap = c.heap
             /\ objs = <<c.obj>>
    /\ last = [op |-> "init", recv |-> 1, res |-> 0, ok |-> TRUE, a1 |-> 0, a2 |-> 0,
               a3 |-> 0, prePl |-> <<>>, preFg |-> <<>>, preId |-> NoId]
    /\ nops = 0
    /\ conv = NoConv

(* ------------------------------ methods -------------------------------- *)
\* a method returned a new instance built from the arguments plArg, fgArg
Returns(op, k, plArg, fgArg, id, a1) ==
    LET c == NeckPosition(heap, plArg, fgArg, id)
    IN /\ heap' = c.heap
       /\ objs' = Append(objs, c.obj)
       /\ last' = Called(op, k, Len(objs) + 1, TRUE, a1, 0, 0)

\* a method raised: nothing was assigned
Raises(op, k, a1, a2) ==
    /\ last' = Called(op, k, 0, FALSE, a1, a2, 0)
    /\ UNCHANGED <<heap, objs>>

Step == nops < MaxOps /\ nops' = nops + 1 /\ UNCHANGED conv

\* sort_by_string / sort_by_fret / sort_by_finger share their shape
SortCall(op, k, pairs, rev) ==
    IF UnpackOk(pairs)
    THEN Returns(op, k, Val(unzip1(pairs)), Val(unzip2(pairs)), objs[k].id,
                 IF rev THEN 1 ELSE 0)
    ELSE Raises(op, k, IF rev THEN 1 ELSE 0, 0)

sort_by_string(k, reverse) ==
    LET pairs == zip(Pl(k), Fg(k))
        keys == [i \in 1..Len(pairs) |-> key_string(pairs[i])]
    IN Step /\ SortCall("sort_by_string", k, sorted(pairs, keys, reverse), reverse)

sort_by_fret(k) ==
    LET pairs == zip(Pl(k), Fg(k))
        keys == [i \in 1..Len(pairs) |-> key_fret(pairs[i])]
    IN Step /\ SortCall("sort_by_fret", k, sorted(pairs, keys, FALSE), FALSE)

sort_by_finger(k) ==
    LET pairs == zip(Pl(k), Fg(k))
        keys == [i \in 1..Len(pairs) |-> key_finger(pairs[i])]
    IN Step /\ SortCall("sort_by_finger", k, sorted(pairs, keys, FALSE), FALSE)

add_note(k, string, fret, finger) ==
    /\ Step
    /\ Len(Pl(k)) < MaxLen /\ Len(Fg(k)) < MaxLen
    /\ LET p == objs[k].placements
           f == objs[k].fingers
           h1 == [heap EXCEPT ![p] = Append(@, string * 100 + fret)]
       IN heap' = [h1 EXCEPT ![f] = Append(@, finger)]
    /\ objs' = objs
    /\ last' = Called("add_note", k, 0, TRUE, string, fret, finger)

\* the placements list get_full_position builds
full_placements(pl, num_fingers) ==
    [n \in 1..num_fingers |->
        LET i == n - 1
        IN IF \E j \in 1..Len(pl) : strings(pl)[j] = i
           THEN pl[index(strings(pl), i)]
           ELSE -1]

get_full_position(k, num_fingers) ==
    /\ Step
    /\ Returns("get_full_position", k, Val(full_placements(Pl(k), num_fingers)),
               Ref(objs[k].fingers), NoId, num_fingers)

copy(k) ==
    /\ Step
    /\ Returns("copy", k, Val(Pl(k)), Val(Fg(k)), objs[k].id, 0)

SeqMax(s) == CHOOSE x \in {s[i] : i \in 1..Len(s)} : \A j \in 1..Len(s) : s[j] <= x

\* the guard of shift: TRUE when shift returns early
shift_returns_early(fg, sh, max_finger) ==
    (\E i \in 1..Len(fg) : fg[i] = max_finger) \/ SeqMax(fg) + sh > max_finger

\* new_fingers, one entry per placement
shifted_fingers(pl, fg, sh) ==
    [i \in 1..Len(pl) |-> IF fg[i] > 0 THEN fg[i] + sh ELSE fg[i]]

shift(k, sh, max_finger) ==
    /\ Step
    /\ IF Fg(k) = <<>>
       THEN Raises("shift", k, sh, max_finger)              \* max() of an empty list
       ELSE IF shift_returns_early(Fg(k), sh, max_finger)
       THEN /\ last' = Called("shift", k, 0, TRUE, sh, max_finger, 0)
            /\ UNCHANGED <<heap, objs>>
       ELSE IF Len(Pl(k)) > Len(Fg(k))
       THEN Raises("shift", k, sh, max_finger)              \* self.fingers[i] out of range
       ELSE /\ heap' = Append(heap, shifted_fingers(Pl(k), Fg(k), sh))
            /\ objs' = [objs EXCEPT ![k].fingers = Len(heap) + 1]
            /\ last' = Called("shift", k, 0, TRUE, sh, max_finger, 0)

Next ==
    \/ \E k \in Objects, r \in BOOLEAN : sort_by_string(k, r)
    \/ \E k \in Objects : sort_by_fret(k)
    \/ \E k \in Objects : sort_by_finger(k)
    \/ \E k \in Objects, s \in StringArgs, f \in FretArgs, g \in FingerArgs : add_note(k, s, f, g)
    \/ \E k \in Objects, n \in 0..MaxSlots : get_full_position(k, n)
    \/ \E k \in Objects : copy(k)
    \/ \E k \in Objects, sh \in 1..MaxShift : shift(k, sh, MaxFingerArg)

Spec == Init /\ [][Next]_vars

(* -------------------------- note conversions --------------------------- *)
\* a str is a sequence of one-character strings: "C#4" is <<"C", "#", "4">>
MaxMidi == 127
MaxOctave == 10     \* octaves written in the note names tried
LowOctaves == 1     \* negative octaves tried: -LowOctaves..-1

DigitChars == <<"0", "1", "2", "3", "4", "5", "6", "7", "8", "9">>
IsDigit(c) == \E d \in 1..10 : DigitChars[d] = c
DigitOf(c) == (CHOOSE d \in 1..10 : DigitChars[d] = c) - 1

Failed == [ok |-> FALSE, num |-> 0, str |-> <<>>]
Num(n) == [ok |-> TRUE, num |-> n, str |-> <<>>]
Str(t) == [ok |-> TRUE, num |-> 0, str |-> t]

\* str(n) for an int
RECURSIVE DigitsOf(_)
DigitsOf(n) == IF n < 10 THEN <<DigitChars[n + 1]>>
               ELSE DigitsOf(n \div 10) \o <<DigitChars[(n % 10) + 1]>>
str(n) == IF n < 0 THEN <<"-">> \o DigitsOf(0 - n) ELSE DigitsOf(n)

\* int(t) for a str: an optional sign and at least one digit, else ValueError
RECURSIVE DigitsValue(_)
DigitsValue(t) == IF t = <<>> THEN 0
                  ELSE DigitsValue(SubSeq(t, 1, Len(t) - 1)) * 10 + DigitOf(t[Len(t)])
AllDigits(t) == Len(t) > 0 /\ \A i \in 1..Len(t) : IsDigit(t[i])
int(t) ==
    IF AllDigits(t) THEN Num(DigitsValue(t))
    ELSE IF Len(t) > 1 /\ t[1] = "-" /\ AllDigits(Tail(t)) THEN Num(0 - DigitsValue(Tail(t)))
    ELSE IF Len(t) > 1 /\ t[1] = "+" /\ AllDigits(Tail(t)) THEN Num(DigitsValue(Tail(t)))
    ELSE Failed

\* the dict of note2num
notes == [C |-> 0, D |-> 2, E |-> 4, F |-> 5, G |-> 7, A |-> 9, B |-> 11]

\* the list of num2note
note_names == << <<"C">>, <<"C", "#">>, <<"D">>, <<"D", "#">>, <<"E">>, <<"F">>,
                 <<"F", "#">>, <<"G">>, <<"G", "#">>, <<"A">>, <<"A", "#">>, <<"B">> >>

\* note2num without the sharp
note2num_no_sharp(note) ==
    IF Len(note) < 2 THEN Failed
    ELSE LET letter == note[1]
             alt == IF note[2] \in {"#", "b"} THEN note[2] ELSE ""
             octave == IF alt # "" THEN int(SubSeq(note, 3, Len(note)))
                       ELSE int(SubSeq(note, 2, Len(note)))
         IN IF ~octave.ok THEN Failed
            ELSE IF letter \notin DOMAIN notes THEN Failed
            ELSE LET num == notes[letter] + 12 * octave.num
                            - (IF alt = "b" THEN 1 ELSE 0)
                 IN IF num < 0 \/ num > MaxMidi THEN Failed
                    ELSE Num(num)

note2num(note) ==
    IF Len(note) < 2 THEN Failed                         \* note[0] or note[1]: IndexError
    ELSE LET letter == note[1]
             alt == IF note[2] \in {"#", "b"} THEN note[2] ELSE ""
             octave == IF alt # "" THEN int(SubSeq(note, 3, Len(note)))
                       ELSE int(SubSeq(note, 2, Len(note)))
         IN IF ~octave.ok THEN Failed                    \* int(): ValueError
            ELSE IF letter \notin DOMAIN notes THEN Failed   \* KeyError
            ELSE LET num == notes[letter] + 12 * octave.num
                            + (IF alt = "#" THEN 1 ELSE 0) - (IF alt = "b" THEN 1 ELSE 0)
                 IN IF num < 0 \/ num > MaxMidi THEN Failed  \* ValueError
                    ELSE Num(num)

\* num2note with octaves counted from -1
num2note_low_octave(num) ==
    IF num < 0 \/ num > MaxMidi THEN Failed
    ELSE Str(note_names[(num % 12) + 1] \o str((num \div 12) - 1))

num2note(num) ==
    IF num < 0 \/ num > MaxMidi THEN Failed
    ELSE Str(note_names[(num % 12) + 1] \o str(num \div 12))

Letters == {"C", "D", "E", "F", "G", "A", "B"}
Accidentals == {<<>>, <<"#">>, <<"b">>}
OctaveArgs == (0 - LowOctaves)..MaxOctave
NoteNames == {<<l>> \o a \o str(o) : l \in Letters, a \in Accidentals, o \in OctaveArgs}
NumArgs == -1..(MaxMidi + 1)

\* num2note(note2num(name))
name_round_trip(name) ==
    LET r1 == note2num(name)
        r2 == IF r1.ok THEN num2note(r1.num) ELSE Failed
    IN /\ conv' = [op |-> "name", name |-> name, num |-> r1.num, ok1 |-> r1.ok,
                   ok2 |-> r2.ok, back |-> r2.str, backnum |-> 0]
       /\ UNCHANGED <<heap, objs, last, nops>>

\* note2num(num2note(num))
num_round_trip(num) ==
    LET r1 == num2note(num)
        r2 == IF r1.ok THEN note2num(r1.str) ELSE Failed
    IN /\ conv' = [op |-> "num", name |-> <<>>, num |-> num, ok1 |-> r1.ok,
                   ok2 |-> r2.ok, back |-> r1.str, backnum |-> r2.num]
       /\ UNCHANGED <<heap, objs, last, nops>>

InitNotes ==
    /\ heap = <<>>
    /\ objs = <<>>
    /\ last = [op |-> "init", recv |-> 0, res |-> 0, ok |-> TRUE, a1 |-> 0, a2 |-> 0,
               a3 |-> 0, prePl |-> <<>>, preFg |-> <<>>, preId |-> NoId]
    /\ nops = 0
    /\ conv = NoConv

NextNotes ==
    \/ \E name \in NoteNames : name_round_trip(name)
    \/ \E num \in NumArgs : num_round_trip(num)

SpecNotes == InitNotes /\ [][NextNotes]_vars

(* ------------------------------ properties ----------------------------- *)
ResPl == Pl(last.res)
ResFg == Fg(last.res)
PrePairs == zip(last.prePl, last.preFg)
ResPairs == zip(ResPl, ResFg)
Sorts == {"sort_by_string", "sort_by_fret", "sort_by_finger"}
Pure == Sorts \cup {"get_full_position", "copy"}
Mutators == {"add_note", "shift"}

NonDecreasing(s) == \A i \in 1..Len(s), j \in 1..Len(s) : i < j => s[i] <= s[j]
NonIncreasing(s) == \A i \in 1..Len(s), j \in 1..Len(s) : i < j => s[i] >= s[j]
Count(s, x) == Cardinality({i \in 1..Len(s) : s[i] = x})
SameBag(a, b) == Len(a) = Len(b) /\ \A i \in 1..Len(a) : Count(a, a[i]) = Count(b, a[i])
OnString(pairs, st) == SelectSeq(pairs, LAMBDA x : x[1] \div 100 = st)
AtPlacement(pairs, p) == SelectSeq(pairs, LAMBDA x : x[1] = p)
StringsOf(pairs) == {pairs[i][1] \div 100 : i \in 1..Len(pairs)}
PlacementsOf(pairs) == {pairs[i][1] : i \in 1..Len(pairs)}

\* C1: every instance has as many placements as fingers, at all times
C1_LengthsEqual == \A k \in Objects : Len(Pl(k)) = Len(Fg(k))

\* C2 as stated: sort_by_string(reverse=True) on a non-empty position keeps,
\* for every string, the pairs on that string in their input order
C2_StableByStringOnly ==
    (last.op = "sort_by_string" /\ last.a1 = 1
        /\ Len(last.prePl) = Len(last.preFg) /\ Len(last.prePl) > 0)
    => /\ last.ok
       /\ \A st \in StringsOf(PrePairs) : OnString(ResPairs, st) = OnString(PrePairs, st)

\* C2 amended: sort_by_string(reverse=True) on a position with at least one
\* (placement, finger) pair is a stable sort by the whole placement value,
\* descending: placements come out non-increasing, so pairs on one string are
\* in descending fret order, and only pairs with the same placement keep
\* their input order
C2_StableByPlacement ==
    (last.op = "sort_by_string" /\ last.a1 = 1 /\ PrePairs # <<>>)
    => /\ last.ok
       /\ Len(ResPairs) = Len(PrePairs)
       /\ Len(ResPl) = Len(ResFg)
       /\ NonIncreasing(ResPl)
       /\ \A p \in PlacementsOf(PrePairs) :
             AtPlacement(ResPairs, p) = AtPlacement(PrePairs, p)

C2_Witness ==
    /\ last.op = "sort_by_string" /\ last.a1 = 1 /\ last.ok
    /\ \E i \in 1..Len(last.prePl), j \in 1..Len(last.prePl) :
          /\ i < j
          /\ last.prePl[i] \div 100 = last.prePl[j] \div 100
          /\ last.prePl[i] < last.prePl[j]
          /\ ResPl[i] = last.prePl[j]

\* C3: on a non-empty position with lists of equal length, sort_by_fret
\* returns frets in non-decreasing order, sort_by_string(reverse=True) returns
\* strings in non-increasing order, and both keep the multiset of pairs
C3_SortedAndSameBag ==
    /\ (last.op = "sort_by_fret"
            /\ Len(last.prePl) = Len(last.preFg) /\ Len(last.prePl) > 0)
       => /\ last.ok
          /\ Len(ResPl) = Len(ResFg)
          /\ NonDecreasing(frets(ResPl))
          /\ SameBag(ResPairs, PrePairs)
    /\ (last.op = "sort_by_string" /\ last.a1 = 1
            /\ Len(last.prePl) = Len(last.preFg) /\ Len(last.prePl) > 0)
       => /\ last.ok
          /\ Len(ResPl) = Len(ResFg)
          /\ NonIncreasing(strings(ResPl))
          /\ SameBag(ResPairs, PrePairs)

C3_Witness ==
    /\ last.op = "sort_by_fret" /\ last.ok
    /\ Len(last.prePl) = Len(last.preFg)
    /\ ~NonDecreasing(frets(last.prePl))
    /\ ~NonDecreasing(ResPl)

\* C4: shift on non-empty fingers leaves them alone when max_finger is
\* among them or max(fingers) + shift > max_finger, and otherwise adds shift
\* to every finger > 0, index by index
C4_ShiftSpec ==
    (last.op = "shift" /\ last.preFg # <<>>)
    => /\ last.ok
       /\ LET fg == last.preFg
              noop == \/ \E i \in 1..Len(fg) : fg[i] = last.a2
                      \/ \E i \in 1..Len(fg) : fg[i] + last.a1 > last.a2
          IN Fg(last.recv) =
                IF noop THEN fg
                ELSE [i \in 1..Len(fg) |-> IF fg[i] > 0 THEN fg[i] + last.a1 ELSE fg[i]]

\* C5: get_full_position(n) returns n placements, slot i holding the first
\* note of the receiver on string i, or -1, and the receiver's fingers as
\* they were
C5_FullPosition ==
    (last.op = "get_full_position")
    => /\ last.ok /\ last.res > 0
       /\ Len(ResPl) = last.a1
       /\ ResFg = last.preFg
       /\ \A i \in 0..(last.a1 - 1) :
             LET on == {j \in 1..Len(last.prePl) : last.prePl[j] \div 100 = i}
             IN IF on = {} THEN ResPl[i + 1] = -1
                ELSE \E j \in on : (\A m \in on : j <= m) /\ ResPl[i + 1] = last.prePl[j]

C5_Witness ==
    /\ last.op = "get_full_position" /\ last.ok
    /\ Len(ResPl) # Len(ResFg)
    /\ \E i \in 1..Len(ResPl) : ResPl[i] = -1
    /\ \E j \in 1..Len(last.prePl), m \in 1..Len(last.prePl) :
          /\ j < m
          /\ last.prePl[j] # last.prePl[m]
          /\ last.prePl[j] \div 100 = last.prePl[m] \div 100
          /\ last.prePl[j] \div 100 < last.a1

\* C6: the sorts, get_full_position and copy leave every existing instance
\* as it was and return a new one; add_note and shift change the instance
\* they are called on and no other, whichever instance that is
C6_Independent ==
    [][/\ \A k \in Objects :
             \/ View(k)' = View(k)
             \/ last'.op \in Mutators /\ last'.recv = k
       /\ (last'.op \in Pure /\ last'.ok)
             => last'.res = Len(objs) + 1 /\ Len(objs') = Len(objs) + 1]_vars

C6_Witness ==
    /\ Len(objs) = 2
    /\ objs[1].id = 7 /\ objs[2].id = NoId      \* 2 came from get_full_position on 1
    /\ last.op = "add_note" /\ last.recv = 2
    /\ Len(Fg(1)) > 0
    /\ Len(Fg(2)) = Len(Fg(1)) + 1

\* C7: on a position with no placements and no fingers the three sorts and
\* shift raise, return nothing and leave the position as it was
C7_EmptyRaises ==
    (last.op \in Sorts \cup {"shift"} /\ last.prePl = <<>> /\ last.preFg = <<>>)
    => /\ ~last.ok
       /\ last.res = 0
       /\ View(last.recv) = [placements |-> <<>>, fingers |-> <<>>, id |-> last.preId]

C7_Witness ==
    /\ last.op = "sort_by_fret" /\ ~last.ok
    /\ last.prePl = <<>> /\ last.preFg = <<>>
    /\ Pl(last.recv) = <<>>

\* C10 as stated: a shift that returns normally leaves placements and the
\* number of fingers as they were
C10_ShiftKeepsLength ==
    (last.op = "shift" /\ last.ok)
    => /\ Pl(last.recv) = last.prePl
       /\ Len(Fg(last.recv)) = Len(last.preFg)

(* note names, read off the characters *)
NameAlt(name) == IF Len(name) > 1 /\ name[2] \in {"#", "b"} THEN name[2] ELSE ""
NameOctave(name) ==
    int(SubSeq(name, IF NameAlt(name) = "" THEN 2 ELSE 3, Len(name))).num
PitchClass(name) ==
    (notes[name[1]] + (IF NameAlt(name) = "#" THEN 1 ELSE 0)
                    - (IF NameAlt(name) = "b" THEN 1 ELSE 0)) % 12

\* C8 as stated: when note2num(n) succeeds, num2note(note2num(n)) has the
\* pitch class and the octave number of n
C8_SamePitchClassAndOctave ==
    (conv.op = "name" /\ conv.ok1)
    => /\ conv.ok2
       /\ PitchClass(conv.back) = PitchClass(conv.name)
       /\ NameOctave(conv.back) = NameOctave(conv.name)

\* C8 amended: when note2num(n) succeeds, num2note(note2num(n)) has the pitch
\* class of n, and the octave number of n except that Cb<k> comes back in
\* octave k-1 (as B) and B#<k> in octave k+1 (as C)
C8_SamePitch ==
    (conv.op = "name" /\ conv.ok1)
    => /\ conv.ok2
       /\ PitchClass(conv.back) = PitchClass(conv.name)
       /\ NameOctave(conv.back) =
             NameOctave(conv.name)
             + (IF conv.name[1] = "B" /\ NameAlt(conv.name) = "#" THEN 1 ELSE 0)
             - (IF conv.name[1] = "C" /\ NameAlt(conv.name) = "b" THEN 1 ELSE 0)

C8_Witness ==
    /\ conv.op = "name" /\ conv.ok1 /\ conv.ok2
    /\ conv.name = <<"C", "b", "1", "0">>
    /\ conv.back = <<"B", "9">>

\* C9: for k in 0..127 num2note(k) succeeds and note2num(num2note(k)) = k
C9_NumRoundTrip ==
    (conv.op = "num" /\ conv.num \in 0..MaxMidi)
    => conv.ok1 /\ conv.ok2 /\ conv.backnum = conv.num

C9_Witness ==
    /\ conv.op = "num" /\ conv.num = 126
    /\ conv.back = <<"F", "#", "1", "0">>
    /\ conv.backnum = 126

====
